---- MODULE Spec2Model ----
(***************************************************************************)
(* A model of the VM provisioning service: the mock provisioning client    *)
(* (sdk/client.py), the token check and the POST /token, POST /vms and     *)
(* DELETE /vms/{vm_id} handlers with their 'vms' table (main.py).          *)
(*                                                                         *)
(* Optional values are sequences of length at most one: None is <<>> and   *)
(* a present value v is <<v>>.                                             *)
(***************************************************************************)
EXTENDS Integers, Sequences, FiniteSets, TLC

VARIABLES api_key, authenticated, issued, call, result,
          vms, now, live, labelled, req, resp,
          sessions, requests

vars == <<api_key, authenticated, issued, call, result,
          vms, now, live, labelled, req, resp,
          sessions, requests>>

clientVars == <<api_key, authenticated, issued, call, result>>
httpVars == <<vms, now, live, labelled, req, resp>>
sessVars == <<sessions, requests>>

None == <<>>
Some(v) == <<v>>

\* Number of identifiers uuid4() can hand out in a run.
MaxIds == 2

\* The identifiers uuid4() hands out, as text (f"{uuid4()}").
Uuids == {"uuid-" \o ToString(i) : i \in 1..MaxIds}

\* Identifiers a caller can ask to delete: the generated ones and one that is
\* never generated.
VmIds == Uuids \cup {"my-vm"}

\* Values of the API key the client is constructed with.
ApiKeys == {None, Some(""), Some("1234")}

\* Values random.randint(1, 100) can return.
RandDraws == {1, 2}

Names == {"test-vm"}
CpuCores == {2}
Memories == {4096}
DiskSizes == {50}

\* Texts a caller can pass as public_ip.
IpTexts == {"0:0:0:0:0:0:0:1", "not-an-ip"}

\* Label lists a caller can pass.
LabelLists == {<<>>, <<"a", "b">>}

\* Python truthiness of an optional string: None and "" are falsy.
Truthy(s) == s # None /\ s[1] # ""

(***************************************************************************)
(* IP addresses.  IPvAnyAddress parses a text into an address object or    *)
(* rejects it; str() of the address is its canonical text.                 *)
(***************************************************************************)
IsIpText(s) == s \in {"10.0.0.1", "0:0:0:0:0:0:0:1", "::1"}

ParseIp(s) ==
    CASE s = "10.0.0.1" -> [version |-> 4, packed |-> <<10, 0, 0, 1>>]
      [] s \in {"0:0:0:0:0:0:0:1", "::1"} ->
             [version |-> 6, packed |-> <<0, 0, 0, 0, 0, 0, 0, 1>>]

IpStr(a) == IF a.version = 4 THEN "10.0.0.1" ELSE "::1"

(***************************************************************************)
(* sdk/models.py: VirtualMachine.  Construction validates public_ip.       *)
(***************************************************************************)
VirtualMachineValid(public_ip) == public_ip = None \/ IsIpText(public_ip[1])

\* A VirtualMachine built with memory and disk_size exchanged.
VirtualMachine_Swapped(id, name, cpu_cores, memory, disk_size, public_ip, labels) ==
    [id |-> id, name |-> name, cpu_cores |-> cpu_cores, memory |-> disk_size,
     disk_size |-> memory,
     public_ip |-> IF public_ip = None THEN None ELSE Some(ParseIp(public_ip[1])),
     labels |-> labels]

VirtualMachine(id, name, cpu_cores, memory, disk_size, public_ip, labels) ==
    [id |-> id, name |-> name, cpu_cores |-> cpu_cores, memory |-> memory,
     disk_size |-> disk_size,
     public_ip |-> IF public_ip = None THEN None ELSE Some(ParseIp(public_ip[1])),
     labels |-> labels]

(***************************************************************************)
(* sdk/client.py: Client.  Each operation is an operator from the client's *)
(* state and the arguments to the outcome: exc is the exception raised     *)
(* ("" when the call returns), ret the returned value, authenticated the   *)
(* flag after the call.                                                    *)
(***************************************************************************)
Returned(v, auth) == [exc |-> "", msg |-> "", ret |-> Some(v), authenticated |-> auth]
Raised(e, m, auth) == [exc |-> e, msg |-> m, ret |-> None, authenticated |-> auth]

\* An authenticate that accepts the empty key ('is None' for 'not').
Client_authenticate_IsNone(key, auth) ==
    IF key = None
    THEN Raised("AuthenticationError", "Invalid API key", auth)
    ELSE Returned(TRUE, TRUE)

Client_authenticate(key, auth) ==
    IF ~Truthy(key)
    THEN Raised("AuthenticationError", "Invalid API key", auth)
    ELSE Returned(TRUE, TRUE)

\* labels is optional (None when omitted); draw is random.randint(1, 100) and
\* id is uuid4().
Client_create_vm(auth, name, cpu_cores, memory, disk_size, public_ip, labels, draw, id) ==
    IF ~auth
    THEN Raised("AuthenticationError", "Not authenticated", auth)
    ELSE IF draw = 1
    THEN Raised("NoResourcesAvailableError",
                "No resources available to create a new virtual machine", auth)
    ELSE IF ~VirtualMachineValid(public_ip)
    THEN Raised("ValidationError", "value is not a valid IPv4 or IPv6 address", auth)
    ELSE Returned(VirtualMachine(id, name, cpu_cores, memory, disk_size, public_ip,
                                 IF labels = None \/ labels[1] = <<>> THEN <<>> ELSE labels[1]),
                  auth)

\* A delete_vm that checks the id against the ids create_vm has returned.
Client_delete_vm_Checked(auth, vm_id) ==
    IF ~auth
    THEN Raised("AuthenticationError", "Not authenticated", auth)
    ELSE IF vm_id \notin issued
    THEN Raised("ClientException", "VM not found", auth)
    ELSE Returned(TRUE, auth)

Client_delete_vm(auth, vm_id) ==
    IF ~auth
    THEN Raised("AuthenticationError", "Not authenticated", auth)
    ELSE Returned(TRUE, auth)

(***************************************************************************)
(* main.py: bearer tokens.  jwt.encode signs the claims with a key and an  *)
(* algorithm; jwt.decode returns the claims when the signature was made    *)
(* with the given key and one of the accepted algorithms, and raises       *)
(* JWTError otherwise.                                                     *)
(***************************************************************************)
SECRET_KEY == "dev_secret_key"
ALGORITHM == "HS256"

jwt_encode(claims, key, algorithm) == [claims |-> claims, key |-> key, alg |-> algorithm]

\* A decode that does not verify the signature.
jwt_decode_Unverified(token, key, algorithms) == [ok |-> TRUE, payload |-> token.claims]

jwt_decode(token, key, algorithms) ==
    IF token.key = key /\ token.alg \in algorithms
    THEN [ok |-> TRUE, payload |-> token.claims]
    ELSE [ok |-> FALSE, payload |-> [sub |-> None]]

\* The request carries no Authorization header.
NoToken == [claims |-> [sub |-> None], key |-> "", alg |-> "missing"]

Usernames == {"testuser"}
Passwords == {"testpassword", "wrong"}

\* A login that signs with another algorithm than the token check accepts.
login_OtherAlgorithm(username, password) ==
    [access_token |-> jwt_encode([sub |-> Some(username)], SECRET_KEY, "HS512"),
     token_type |-> "bearer"]

\* POST /token: the access token for the form's username.
login(username, password) ==
    [access_token |-> jwt_encode([sub |-> Some(username)], SECRET_KEY, ALGORITHM),
     token_type |-> "bearer"]

\* Tokens a caller can present: none, the ones POST /token issues, and tokens
\* made elsewhere (signed with another key, or without a sub claim).
Tokens ==
    {NoToken}
    \cup {login(u, p).access_token : u \in Usernames, p \in Passwords}
    \cup {jwt_encode([sub |-> Some("testuser")], "other_key", ALGORITHM),
          jwt_encode([sub |-> None], SECRET_KEY, ALGORITHM)}

\* oauth2_scheme followed by get_current_user: the user id, or the 401 raised.
get_current_user(token) ==
    IF token = NoToken
    THEN [status_code |-> 401, detail |-> "Not authenticated", user_id |-> None]
    ELSE LET d == jwt_decode(token, SECRET_KEY, {ALGORITHM}) IN
         IF ~d.ok
         THEN [status_code |-> 401, detail |-> "Invalid credentials", user_id |-> None]
         ELSE IF d.payload.sub = None
         THEN [status_code |-> 401, detail |-> "Invalid credentials", user_id |-> None]
         ELSE [status_code |-> 0, detail |-> "", user_id |-> d.payload.sub]

(***************************************************************************)
(* Exceptions.  The client's exceptions derive from BaseException, every   *)
(* other one from Exception; 'except Exception' catches only the latter.   *)
(***************************************************************************)
ClientException == {"ClientException", "AuthenticationError", "NoResourcesAvailableError"}

IsException(cls) == cls \notin ClientException

Exc(cls, msg) == [cls |-> cls, status_code |-> 0, msg |-> msg]
HTTPException(status_code, detail) ==
    [cls |-> "HTTPException", status_code |-> status_code, msg |-> detail]

\* str(e)
ExcStr(e) ==
    IF e.cls = "HTTPException"
    THEN ToString(e.status_code) \o ": " \o e.msg
    ELSE e.msg

\* What a handler leaves behind: the value it returns or the exception that
\* leaves it, the exception first raised in its try block (None when none), the
\* table and the client's flag afterwards.
HReturn(body, table, auth) ==
    [kind |-> "return", body |-> Some(body), exc |-> None, raised |-> None,
     table |-> table, authenticated |-> auth]

\* The except clause of both handlers: an Exception becomes
\* HTTPException(500, str(e)); anything else leaves the handler as it is.
HExcept(e, table, auth) ==
    [kind |-> "raise", body |-> None,
     exc |-> IF IsException(e.cls) THEN Some(HTTPException(500, ExcStr(e))) ELSE Some(e),
     raised |-> Some(e), table |-> table, authenticated |-> auth]

DbError == Exc("OperationalError", "database is locked")

(***************************************************************************)
(* main.py: the request model, the 'vms' table and the two handlers.       *)
(***************************************************************************)
\* VMCreateRequest: the JSON body is accepted when public_ip is absent or the
\* text of an IP address, which is then held as an address.
VMCreateRequestValid(json) == json.public_ip = None \/ IsIpText(json.public_ip[1])

VMCreateRequest(json) ==
    [name |-> json.name, cpu_cores |-> json.cpu_cores, memory |-> json.memory,
     disk_size |-> json.disk_size,
     public_ip |-> IF json.public_ip = None THEN None
                   ELSE Some(ParseIp(json.public_ip[1])),
     labels |-> json.labels]

\* A row built with cpu_cores and memory exchanged.
VM_Swapped(id, name, cpu_cores, memory, disk_size, public_ip, status, t) ==
    [id |-> id, name |-> name, cpu_cores |-> memory, memory |-> cpu_cores,
     disk_size |-> disk_size, public_ip |-> public_ip, status |-> status,
     created_at |-> t, updated_at |-> t]

\* A row of the table 'vms'; created_at and updated_at take the time of the
\* insert.
VM(id, name, cpu_cores, memory, disk_size, public_ip, status, t) ==
    [id |-> id, name |-> name, cpu_cores |-> cpu_cores, memory |-> memory,
     disk_size |-> disk_size, public_ip |-> public_ip, status |-> status,
     created_at |-> t, updated_at |-> t]

VMResponse(id, name, cpu_cores, memory, disk_size, public_ip, labels, status, created_at, updated_at) ==
    [id |-> id, name |-> name, cpu_cores |-> cpu_cores, memory |-> memory,
     disk_size |-> disk_size, public_ip |-> public_ip, labels |-> labels,
     status |-> status, created_at |-> created_at, updated_at |-> updated_at]

\* db.query(VM).filter(VM.id == vm_id).first(): the row in a one-element
\* sequence, or None.
QueryFirst(table, vm_id) ==
    IF \E r \in table : r.id = vm_id
    THEN Some(CHOOSE r \in table : r.id = vm_id)
    ELSE None

\* A response that never carries labels.
ResponseLabels_Dropped(labels) == <<>>

\* The labels of the POST /vms response: the request's, [] when it has none.
ResponseLabels(labels) ==
    IF labels # None /\ labels[1] # <<>> THEN labels[1] ELSE <<>>

\* db.add(new_vm) followed by a successful db.commit().
DbAdd(table, new_vm) == table \cup {new_vm}

\* A delete that keeps the row and marks it deleted.
DbDelete_Soft(table, vm) == (table \ {vm}) \cup {[vm EXCEPT !.status = "deleted"]}

\* db.delete(vm) followed by a successful db.commit().
DbDelete(table, vm) == table \ {vm}

\* POST /vms.  request is a VMCreateRequest; draw and id are the draws of the
\* client's create_vm, t the time, commit_ok whether db.commit() succeeds.
create_vm(request, key, auth, table, t, draw, id, commit_ok) ==
    LET a == Client_authenticate(key, auth) IN
    IF a.exc # "" THEN HExcept(Exc(a.exc, a.msg), table, a.authenticated) ELSE
    LET c == Client_create_vm(a.authenticated, request.name, request.cpu_cores,
                 request.memory, request.disk_size,
                 IF request.public_ip # None
                     THEN Some(IpStr(request.public_ip[1])) ELSE None,
                 request.labels, draw, id) IN
    IF c.exc # "" THEN HExcept(Exc(c.exc, c.msg), table, c.authenticated) ELSE
    LET vm == c.ret[1]
        new_vm == VM(vm.id, vm.name, vm.cpu_cores, vm.memory, vm.disk_size,
                     IF vm.public_ip # None THEN Some(IpStr(vm.public_ip[1])) ELSE None,
                     "created", t) IN
    IF ~commit_ok \/ (\E r \in table : r.id = new_vm.id)
    THEN HExcept(DbError, table, c.authenticated)
    ELSE HReturn(VMResponse(new_vm.id, new_vm.name, new_vm.cpu_cores, new_vm.memory,
                            new_vm.disk_size, new_vm.public_ip,
                            ResponseLabels(request.labels),
                            new_vm.status, new_vm.created_at, new_vm.updated_at),
                 DbAdd(table, new_vm), c.authenticated)

\* DELETE /vms/{vm_id}.  db_ok: whether the query and the commit succeed.
delete_vm(vm_id, key, auth, table, db_ok) ==
    LET a == Client_authenticate(key, auth) IN
    IF a.exc # "" THEN HExcept(Exc(a.exc, a.msg), table, a.authenticated) ELSE
    LET d == Client_delete_vm(a.authenticated, vm_id) IN
    IF d.exc # "" THEN HExcept(Exc(d.exc, d.msg), table, d.authenticated) ELSE
    IF ~db_ok THEN HExcept(DbError, table, d.authenticated) ELSE
    LET found == QueryFirst(table, vm_id) IN
    IF found = None
    THEN HExcept(HTTPException(404, "VM not found"), table, d.authenticated)
    ELSE LET vm == found[1] IN
         HReturn(VMResponse(vm.id, vm.name, vm.cpu_cores, vm.memory, vm.disk_size,
                            vm.public_ip, <<>>, "deleted", vm.created_at, vm.updated_at),
                 DbDelete(table, vm), d.authenticated)

(***************************************************************************)
(* The HTTP response to a request.  An HTTPException becomes a response    *)
(* with its status and detail.  An exception that is no HTTPException      *)
(* leaves the application: the server answers 500 without a detail, the    *)
(* test client re-raises it (status 0, no response).                       *)
(***************************************************************************)
Servers == {"uvicorn", "TestClient"}

Response(status, detail, body, raised, escaped) ==
    [status |-> status, detail |-> detail, body |-> body, raised |-> raised,
     escaped |-> escaped]

ResponseOf(h, server) ==
    IF h.kind = "return"
    THEN Response(200, None, h.body, None, "")
    ELSE LET e == h.exc[1] IN
         IF e.cls = "HTTPException"
         THEN Response(e.status_code, Some(e.msg), None, h.raised, "")
         ELSE Response(IF server = "uvicorn" THEN 500 ELSE 0, None, None,
                       h.raised, e.cls)

Unauthorized(u) == Response(u.status_code, Some(u.detail), None, None, "")

\* The ids with a successful POST /vms and no successful DELETE since, as the
\* responses show them.
LiveAfter(l, rq, rs) ==
    IF rs.status # 200 THEN l
    ELSE IF rq.op = "POST /vms" THEN l \cup {rs.body[1].id}
    ELSE IF rq.op = "DELETE /vms" THEN l \ {rq.vm_id}
    ELSE l

\* The most recent successful POST /vms whose request had a nonempty labels
\* list: the id it produced and that list (None before the first one).
LabelledAfter(l, rq, rs) ==
    IF rs.status = 200 /\ rq.op = "POST /vms"
       /\ rq.json.labels # None /\ rq.json.labels[1] # <<>>
    THEN Some([id |-> rs.body[1].id, labels |-> rq.json.labels[1]])
    ELSE l

JsonBodies ==
    [name : Names, cpu_cores : CpuCores, memory : Memories, disk_size : DiskSizes,
     public_ip : {None} \cup {Some(s) : s \in IpTexts},
     labels : {None} \cup {Some(l) : l \in LabelLists}]

(***************************************************************************)
(* The client on its own: any sequence of calls on one Client object.      *)
(***************************************************************************)
NoCall == [op |-> "none"]

InitClient ==
    /\ api_key \in ApiKeys
    /\ authenticated = FALSE
    /\ issued = {}
    /\ call = NoCall
    /\ result = Raised("", "", FALSE)

InitHttp ==
    /\ vms = {}
    /\ now = 0
    /\ live = {}
    /\ labelled = None
    /\ req = [op |-> "none"]
    /\ resp = Response(0, None, None, None, "")

\* Number of requests the service receives in a run.
MaxRequests == 2

RequestIds == 1..MaxRequests

\* A request that has not arrived: no session, no response.
NoRequest == [pc |-> "idle", db |-> 0, status |-> 0]

InitSessions ==
    /\ sessions = <<>>
    /\ requests = [r \in RequestIds |-> NoRequest]

Init == InitClient /\ InitHttp /\ InitSessions

CallAuthenticate ==
    /\ call' = [op |-> "authenticate"]
    /\ result' = Client_authenticate(api_key, authenticated)
    /\ authenticated' = result'.authenticated
    /\ UNCHANGED <<api_key, issued>>
    /\ UNCHANGED httpVars
    /\ UNCHANGED sessVars

\* The value standing for "uuid4() was not called".
NoUuid == "no-uuid"

\* create_vm reaches uuid4() when it is authenticated and the draw is not 1.
ReachesUuid4(auth, draw) == auth /\ draw # 1

\* uuid4() returns an identifier it has not returned before; a call that does
\* not reach uuid4() draws none.
Uuid4Draws(reaches) == IF reaches THEN Uuids \ issued ELSE {NoUuid}

CallCreateVm ==
    \E name \in Names, cpu_cores \in CpuCores, memory \in Memories,
       disk_size \in DiskSizes,
       public_ip \in {None} \cup {Some(s) : s \in IpTexts},
       labels \in {None} \cup {Some(l) : l \in LabelLists},
       draw \in RandDraws :
      \E id \in Uuid4Draws(ReachesUuid4(authenticated, draw)) :
        /\ call' = [op |-> "create_vm", name |-> name, cpu_cores |-> cpu_cores,
                    memory |-> memory, disk_size |-> disk_size,
                    public_ip |-> public_ip, labels |-> labels]
        /\ result' = Client_create_vm(authenticated, name, cpu_cores, memory,
                                      disk_size, public_ip, labels, draw, id)
        /\ authenticated' = result'.authenticated
        /\ issued' = issued \cup ({id} \ {NoUuid})
        /\ UNCHANGED api_key
        /\ UNCHANGED httpVars
        /\ UNCHANGED sessVars

CallDeleteVm ==
    \E vm_id \in VmIds :
        /\ call' = [op |-> "delete_vm", vm_id |-> vm_id]
        /\ result' = Client_delete_vm(authenticated, vm_id)
        /\ authenticated' = result'.authenticated
        /\ UNCHANGED <<api_key, issued>>
        /\ UNCHANGED httpVars
        /\ UNCHANGED sessVars

NextClient == CallAuthenticate \/ CallCreateVm \/ CallDeleteVm

SpecClient == Init /\ [][NextClient]_vars

(***************************************************************************)
(* The service: any sequence of requests, each handled as a whole.         *)
(***************************************************************************)
PostToken ==
    \E username \in Usernames, password \in Passwords :
        /\ req' = [op |-> "POST /token", username |-> username, password |-> password]
        /\ resp' = Response(200, None, Some(login(username, password)), None, "")
        /\ UNCHANGED <<vms, now, live, labelled>>
        /\ UNCHANGED clientVars
        /\ UNCHANGED sessVars

\* Whether the handler's call of the client ends in a client exception.
AuthenticateFails == Client_authenticate(api_key, authenticated).exc # ""
ClientFails(draw) == AuthenticateFails \/ draw = 1

\* The database outcome is drawn only by a request that reaches the database,
\* the server's treatment of an escaped exception only when one escapes.
DbDraws(reaches) == IF reaches THEN BOOLEAN ELSE {TRUE}
ServerDraws(escapes) == IF escapes THEN Servers ELSE {"uvicorn"}

\* A request that fails the token check is answered before its body is used:
\* one body stands for all of them.
BodyDraws(u) ==
    IF u.status_code = 0 THEN JsonBodies
    ELSE {j \in JsonBodies : j.public_ip = None /\ j.labels = None}

PostVms ==
    \E token \in Tokens :
      \E json \in BodyDraws(get_current_user(token)) :
        LET u == get_current_user(token)
            rq == [op |-> "POST /vms", token |-> token, json |-> json] IN
        /\ req' = rq
        /\ IF u.status_code # 0
           THEN /\ resp' = Unauthorized(u)
                /\ UNCHANGED <<vms, now, live, labelled, authenticated, issued>>
           ELSE IF ~VMCreateRequestValid(json)
           THEN /\ resp' = Response(422, Some("value is not a valid IPv4 or IPv6 address"),
                                    None, None, "")
                /\ UNCHANGED <<vms, now, live, labelled, authenticated, issued>>
           ELSE \E draw \in RandDraws :
                \E id \in Uuid4Draws(ReachesUuid4(~AuthenticateFails, draw)),
                   commit_ok \in DbDraws(~ClientFails(draw)),
                   server \in ServerDraws(ClientFails(draw)) :
                  LET h == create_vm(VMCreateRequest(json), api_key, authenticated,
                                     vms, now + 1, draw, id, commit_ok) IN
                  /\ resp' = ResponseOf(h, server)
                  /\ vms' = h.table
                  /\ authenticated' = h.authenticated
                  /\ issued' = issued \cup ({id} \ {NoUuid})
                  /\ now' = IF id # NoUuid THEN now + 1 ELSE now
                  /\ live' = LiveAfter(live, rq, resp')
                  /\ labelled' = LabelledAfter(labelled, rq, resp')
        /\ UNCHANGED <<api_key, call, result>>
        /\ UNCHANGED sessVars

DeleteVms ==
    \E token \in Tokens, vm_id \in VmIds :
        LET u == get_current_user(token)
            rq == [op |-> "DELETE /vms", token |-> token, vm_id |-> vm_id] IN
        /\ req' = rq
        /\ IF u.status_code # 0
           THEN /\ resp' = Unauthorized(u)
                /\ UNCHANGED <<vms, live, labelled, authenticated>>
           ELSE \E db_ok \in DbDraws(~AuthenticateFails),
                   server \in ServerDraws(AuthenticateFails) :
                LET h == delete_vm(vm_id, api_key, authenticated, vms, db_ok) IN
                /\ resp' = ResponseOf(h, server)
                /\ vms' = h.table
                /\ authenticated' = h.authenticated
                /\ live' = LiveAfter(live, rq, resp')
                /\ labelled' = LabelledAfter(labelled, rq, resp')
        /\ UNCHANGED <<api_key, issued, now, call, result>>
        /\ UNCHANGED sessVars

Next == PostToken \/ PostVms \/ DeleteVms

Spec == Init /\ [][Next]_vars

(***************************************************************************)
(* main.py: get_db.  Requests run side by side (each handler in its own    *)
(* thread); a request resolves db = Depends(get_db), then the token check, *)
(* then runs the handler, and get_db's finally block runs when the request *)
(* is over.  sessions[i] is the state of the i-th Session() object.        *)
(***************************************************************************)
\* db = Session(): a new session object, open.
SessionNew(ss) == Append(ss, "open")

\* db.close()
SessionClose(ss, db) == [ss EXCEPT ![db] = "closed"]

\* A get_db without try/finally: db.close() is skipped when the request ends
\* with an exception.
get_db_exit_NoFinally(ss, db, raised) == IF raised THEN ss ELSE SessionClose(ss, db)

\* get_db after its yield: the finally block closes the session it opened,
\* whether or not the request ended with an exception.
get_db_exit(ss, db, raised) == SessionClose(ss, db)

\* The request arrives and get_db runs up to its yield.  Requests are numbered
\* in the order they arrive; what a request asks for (its token, its route,
\* its body) is drawn where the service first uses it.
OpenSession(r) ==
    /\ requests[r].pc = "idle"
    /\ \A q \in RequestIds : q < r => requests[q].pc # "idle"
    /\ sessions' = SessionNew(sessions)
    /\ requests' = [requests EXCEPT ![r] =
           [pc |-> "opened", db |-> Len(sessions'), status |-> 0]]
    /\ UNCHANGED clientVars
    /\ UNCHANGED httpVars

\* The token check: a 401 ends the request before the handler.
CheckToken(r) ==
    \E token \in Tokens :
        LET u == get_current_user(token) IN
        /\ requests[r].pc = "opened"
        /\ requests' = [requests EXCEPT ![r] =
               IF u.status_code # 0
               THEN [@ EXCEPT !.pc = "finally", !.status = u.status_code]
               ELSE [@ EXCEPT !.pc = "handler"]]
        /\ UNCHANGED sessions
        /\ UNCHANGED clientVars
        /\ UNCHANGED httpVars

\* The handler of POST /vms, or the 422 for a body that is not valid.
HandlePost(r) ==
    \E json \in JsonBodies :
        /\ requests[r].pc = "handler"
        /\ IF ~VMCreateRequestValid(json)
           THEN /\ requests' = [requests EXCEPT ![r] =
                       [@ EXCEPT !.pc = "finally", !.status = 422]]
                /\ UNCHANGED <<vms, now, authenticated, issued>>
           ELSE \E draw \in RandDraws :
                \E id \in Uuid4Draws(ReachesUuid4(~AuthenticateFails, draw)),
                   commit_ok \in DbDraws(~ClientFails(draw)),
                   server \in ServerDraws(ClientFails(draw)) :
                  LET h == create_vm(VMCreateRequest(json), api_key, authenticated,
                                     vms, now + 1, draw, id, commit_ok) IN
                  /\ requests' = [requests EXCEPT ![r] =
                         [@ EXCEPT !.pc = "finally",
                                   !.status = ResponseOf(h, server).status]]
                  /\ vms' = h.table
                  /\ authenticated' = h.authenticated
                  /\ issued' = issued \cup ({id} \ {NoUuid})
                  /\ now' = IF id # NoUuid THEN now + 1 ELSE now
        /\ UNCHANGED <<api_key, call, result, live, labelled, req, resp, sessions>>

\* The handler of DELETE /vms/{vm_id}.
HandleDelete(r) ==
    \E vm_id \in VmIds :
    \E db_ok \in DbDraws(~AuthenticateFails), server \in ServerDraws(AuthenticateFails) :
        LET h == delete_vm(vm_id, api_key, authenticated, vms, db_ok) IN
        /\ requests[r].pc = "handler"
        /\ requests' = [requests EXCEPT ![r] =
               [@ EXCEPT !.pc = "finally", !.status = ResponseOf(h, server).status]]
        /\ vms' = h.table
        /\ authenticated' = h.authenticated
        /\ UNCHANGED <<api_key, issued, now, call, result, live, labelled, req, resp,
                       sessions>>

\* The request is over: get_db is resumed and runs to its end.
CloseSession(r) ==
    /\ requests[r].pc = "finally"
    /\ sessions' = get_db_exit(sessions, requests[r].db, requests[r].status # 200)
    /\ requests' = [requests EXCEPT ![r] = [@ EXCEPT !.pc = "done"]]
    /\ UNCHANGED clientVars
    /\ UNCHANGED httpVars

Serve(r) ==
    OpenSession(r) \/ CheckToken(r) \/ HandlePost(r) \/ HandleDelete(r) \/ CloseSession(r)

NextSessions == \E r \in RequestIds : Serve(r)

SpecSessions == Init /\ [][NextSessions]_vars

\* A request that has arrived is run to its end: the server keeps running the
\* steps of every request it has accepted.
SpecSessionsFair ==
    Init /\ [][NextSessions]_vars
         /\ \A r \in RequestIds :
              WF_vars(CheckToken(r) \/ HandlePost(r) \/ HandleDelete(r) \/ CloseSession(r))

(***************************************************************************)
(* Properties of the service (specification Spec).                         *)
(***************************************************************************)
Authorised(token) == get_current_user(token).status_code = 0

HasRow(table, vm_id) == \E r \in table : r.id = vm_id

\* C1: an authorised DELETE /vms/{id} whose id has no row in the table, and in
\* which neither the client nor the database fails, is answered with 404.
C1_DeleteAbsentIs404 ==
    [][(/\ req'.op = "DELETE /vms"
        /\ Authorised(req'.token)
        /\ ~HasRow(vms, req'.vm_id)
        /\ (resp'.raised = None \/ resp'.raised[1].cls = "HTTPException"))
       => resp'.status = 404]_vars

\* C2: when the body of the POST /vms or DELETE /vms/{id} handler fails with an
\* AuthenticationError, a NoResourcesAvailableError or a persistence exception,
\* the response is a 500 whose detail is the exception's message.
C2_FailureIs500WithMessage ==
    (/\ req.op \in {"POST /vms", "DELETE /vms"}
     /\ resp.raised # None
     /\ resp.raised[1].cls \in {"AuthenticationError", "NoResourcesAvailableError",
                                "OperationalError"})
    => (resp.status = 500 /\ resp.detail = Some(resp.raised[1].msg))

\* C3: an authorised POST /vms in which the client's calls and the commit
\* succeed adds exactly one row, with the id the client returned and status
\* "created", and is answered 200 with that row's id, name, cpu_cores, memory,
\* disk_size and public_ip, status "created" and the caller's labels ([] when
\* omitted).
C3_CreateStoresAndReturns ==
    [][(/\ req'.op = "POST /vms"
        /\ Authorised(req'.token)
        /\ VMCreateRequestValid(req'.json)
        /\ resp'.raised = None)
       => /\ resp'.status = 200
          /\ \E row \in vms' :
               /\ row \notin vms
               /\ vms' = vms \cup {row}
               /\ ~HasRow(vms, row.id)
               /\ issued' \ issued = {row.id}
               /\ row.status = "created"
               /\ LET body == resp'.body[1] IN
                  /\ body.id = row.id
                  /\ body.name = row.name
                  /\ body.cpu_cores = row.cpu_cores
                  /\ body.memory = row.memory
                  /\ body.disk_size = row.disk_size
                  /\ body.public_ip = row.public_ip
                  /\ body.status = "created"
                  /\ body.labels = IF req'.json.labels = None THEN <<>>
                                   ELSE req'.json.labels[1]]_vars

C3_Witness ==
    /\ req.op = "POST /vms"
    /\ resp.status = 200
    /\ req.json.labels = Some(<<"a", "b">>)
    /\ resp.body[1].labels = <<"a", "b">>
    /\ HasRow(vms, resp.body[1].id)

\* C4: every stored row has status "created"; the ids in the table are exactly
\* those with a successful POST /vms and no successful DELETE since; a DELETE
\* answered 200 removes exactly the row with its id, returns status "deleted"
\* and leaves the other rows as they are.
C4_Rows ==
    /\ \A r \in vms : r.status = "created"
    /\ \A r1, r2 \in vms : r1.id = r2.id => r1 = r2
    /\ {r.id : r \in vms} = live

C4_DeleteStep ==
    (req'.op = "DELETE /vms" /\ resp'.status = 200)
    => \E row \in vms :
         /\ row.id = req'.vm_id
         /\ vms' = vms \ {row}
         /\ resp'.body[1].id = row.id
         /\ resp'.body[1].status = "deleted"

C5_BadTokenIs401 ==
    (/\ req.op \in {"POST /vms", "DELETE /vms"}
     /\ \/ req.token = NoToken
        \/ req.token.key # SECRET_KEY
        \/ req.token.alg # ALGORITHM
        \/ req.token.claims.sub = None)
    => resp.status = 401

C5_Witness ==
    /\ req.op = "DELETE /vms"
    /\ req.token.key = "other_key"
    /\ req.token.claims.sub # None
    /\ resp.status = 401

\* C10: POST /token answers 200 for every username and password, with a bearer
\* token whose subject is the username; a request to POST /vms or
\* DELETE /vms/{id} that presents such a token is never answered 401.
C10_AnyoneGetsUsableToken ==
    /\ req.op = "POST /token" =>
         /\ resp.status = 200
         /\ resp.body[1].token_type = "bearer"
         /\ jwt_decode(resp.body[1].access_token, SECRET_KEY, {ALGORITHM}).ok
         /\ resp.body[1].access_token.claims.sub = Some(req.username)
    /\ (/\ req.op \in {"POST /vms", "DELETE /vms"}
        /\ \E u \in Usernames, p \in Passwords : req.token = login(u, p).access_token)
       => resp.status # 401

C10_Witness ==
    /\ req.op = "POST /vms"
    /\ req.token = login("testuser", "wrong").access_token
    /\ resp.status = 200

(***************************************************************************)
(* The stored row against the request and the responses (specification     *)
(* Spec).                                                                  *)
(***************************************************************************)
\* C9 as claimed: the row stored by a successful POST /vms carries the labels
\* of the VirtualMachine, and a VM created with a nonempty labels list has
\* those labels in the body returned when it is deleted.
C9_RowMirrorsLabels ==
    [][/\ (/\ req'.op = "POST /vms"
           /\ resp'.status = 200
           /\ req'.json.labels # None
           /\ req'.json.labels[1] # <<>>)
          => \E row \in vms' :
               /\ row.id = resp'.body[1].id
               /\ "labels" \in DOMAIN row
               /\ row.labels = req'.json.labels[1]
       /\ (req'.op = "DELETE /vms" /\ resp'.status = 200)
          => (labelled # None /\ labelled[1].id = req'.vm_id
              => resp'.body[1].labels = labelled[1].labels)]_vars

\* The columns of the table 'vms'.
Columns ==
    {"id", "name", "cpu_cores", "memory", "disk_size", "public_ip", "status",
     "created_at", "updated_at"}

\* C9 as amended: the row stored by a successful POST /vms has the id, name,
\* cpu_cores, memory, disk_size and public_ip (as canonical text) of the
\* VirtualMachine plus status and timestamps, and no labels; the POST response
\* is that row with the request's labels, and the body returned when the VM is
\* deleted is that row with status "deleted" and an empty labels list,
\* whatever labels the VM was created with.
C9_RowMirrorsAllButLabels ==
    [][/\ (req'.op = "POST /vms" /\ resp'.status = 200)
          => \E row \in vms' \ vms :
               LET body == resp'.body[1] IN
               /\ DOMAIN row = Columns
               /\ row.id \in issued' \ issued
               /\ row.name = req'.json.name
               /\ row.cpu_cores = req'.json.cpu_cores
               /\ row.memory = req'.json.memory
               /\ row.disk_size = req'.json.disk_size
               /\ row.public_ip = IF req'.json.public_ip = None THEN None
                                  ELSE Some("::1")
               /\ row.status = "created"
               /\ row.created_at = row.updated_at
               /\ \A col \in Columns : body[col] = row[col]
               /\ body.labels = IF req'.json.labels = None THEN <<>>
                                ELSE req'.json.labels[1]
       /\ (req'.op = "DELETE /vms" /\ resp'.status = 200)
          => \E row \in vms \ vms' :
               LET body == resp'.body[1] IN
               /\ row.id = req'.vm_id
               /\ \A col \in Columns \ {"status"} : body[col] = row[col]
               /\ body.status = "deleted"
               /\ body.labels = <<>>]_vars

C9_Witness ==
    /\ req.op = "DELETE /vms"
    /\ resp.status = 200
    /\ resp.body[1].labels = <<>>
    /\ resp.body[1].public_ip = Some("::1")
    /\ labelled = Some([id |-> req.vm_id, labels |-> <<"a", "b">>])

(***************************************************************************)
(* Properties of the client (specification SpecClient).                    *)
(***************************************************************************)
\* C6: authenticate() fails with AuthenticationError exactly when the API key
\* is None or empty, and then leaves the authenticated flag as it was; with a
\* nonempty key it returns true and sets the flag.
C6_AuthenticateByKey ==
    [][call'.op = "authenticate" =>
         IF api_key = None \/ api_key = Some("")
         THEN /\ result'.exc = "AuthenticationError"
              /\ authenticated' = authenticated
         ELSE /\ result'.exc = ""
              /\ result'.ret = Some(TRUE)
              /\ authenticated' = TRUE]_vars

C6_Witness ==
    /\ call.op = "authenticate"
    /\ api_key = Some("")
    /\ result.exc = "AuthenticationError"
    /\ ~authenticated

\* Whether an optional address is what an optional public_ip text denotes.
Denotes(address, text) ==
    IF text = None THEN address = None
    ELSE /\ address # None
         /\ IsIpText(text[1])
         /\ address[1] = ParseIp(text[1])

\* What a returned VirtualMachine carries of the arguments of the call.
CarriesArguments(vm, c) ==
    /\ vm.name = c.name
    /\ vm.cpu_cores = c.cpu_cores
    /\ vm.memory = c.memory
    /\ vm.disk_size = c.disk_size
    /\ Denotes(vm.public_ip, c.public_ip)
    /\ vm.labels = IF c.labels = None THEN <<>> ELSE c.labels[1]

\* C7 as claimed: create_vm on a client that has not authenticated fails with
\* AuthenticationError; on an authenticated client it fails with
\* NoResourcesAvailableError or returns a VirtualMachine with the supplied
\* name, cpu_cores, memory, disk_size and public_ip, the supplied labels ([]
\* when omitted) and an id no earlier create_vm returned.
C7_CreateVmAsClaimed ==
    [][call'.op = "create_vm" =>
         IF ~authenticated
         THEN result'.exc = "AuthenticationError"
         ELSE \/ result'.exc = "NoResourcesAvailableError"
              \/ /\ result'.exc = ""
                 /\ CarriesArguments(result'.ret[1], call')
                 /\ result'.ret[1].id \notin issued]_vars

\* C7 as amended: create_vm on a client that has not authenticated fails with
\* AuthenticationError.  On an authenticated client it fails with
\* NoResourcesAvailableError; otherwise, when public_ip is a text that is no
\* IP address, it fails with a validation error, and when public_ip is omitted
\* or the text of an IP address it returns a VirtualMachine with the supplied
\* name, cpu_cores, memory and disk_size, the address public_ip denotes, the
\* supplied labels ([] when omitted) and an id no earlier create_vm returned.
C7_CreateVm ==
    [][call'.op = "create_vm" =>
         IF ~authenticated
         THEN result'.exc = "AuthenticationError"
         ELSE \/ result'.exc = "NoResourcesAvailableError"
              \/ /\ call'.public_ip = Some("not-an-ip")
                 /\ result'.exc = "ValidationError"
              \/ /\ call'.public_ip # Some("not-an-ip")
                 /\ result'.exc = ""
                 /\ CarriesArguments(result'.ret[1], call')
                 /\ result'.ret[1].id \notin issued]_vars

C7_Witness ==
    /\ call.op = "create_vm"
    /\ call.public_ip = Some("0:0:0:0:0:0:0:1")
    /\ call.labels = None
    /\ result.exc = ""
    /\ result.ret[1].labels = <<>>
    /\ Cardinality(issued) = 2

\* C8: delete_vm fails with AuthenticationError on a client that has not
\* authenticated and returns true on an authenticated one, whatever the id
\* (also one create_vm never returned, or one deleted before), and changes
\* nothing in the client.
C8_DeleteVmByFlag ==
    [][call'.op = "delete_vm" =>
         /\ IF ~authenticated
            THEN result'.exc = "AuthenticationError"
            ELSE result'.exc = "" /\ result'.ret = Some(TRUE)
         /\ UNCHANGED <<api_key, authenticated, issued>>]_vars

C8_Witness ==
    /\ call.op = "delete_vm"
    /\ call.vm_id \notin issued
    /\ issued # {}
    /\ result.ret = Some(TRUE)

(***************************************************************************)
(* Properties of the sessions (specification SpecSessionsFair).            *)
(***************************************************************************)
\* While a request is being served its session is open, when the request is
\* over its session is closed, and no two requests have the same session.
C11_OwnSession ==
    /\ \A r \in RequestIds :
         /\ requests[r].pc \in {"opened", "handler", "finally"} =>
              /\ requests[r].db \in DOMAIN sessions
              /\ sessions[requests[r].db] = "open"
         /\ requests[r].pc = "done" =>
              /\ requests[r].db \in DOMAIN sessions
              /\ sessions[requests[r].db] = "closed"
    /\ \A r1, r2 \in RequestIds :
         (r1 # r2 /\ requests[r1].db # 0 /\ requests[r2].db # 0)
         => requests[r1].db # requests[r2].db

\* A request keeps the session it has opened.
C11_KeepsSession ==
    \A r \in RequestIds :
        requests[r].db # 0 => requests'[r].db = requests[r].db

\* A request that has opened a session comes to its end, where (C11_OwnSession)
\* its session is closed.
C11_Closes ==
    \A r \in RequestIds : (requests[r].db # 0) ~> (requests[r].pc = "done")

\* C11: every POST /vms or DELETE /vms/{id} request that opens a session
\* eventually closes that same session, whatever the outcome of the handler,
\* and no session is shared between two requests.
C11_SessionPerRequest ==
    []C11_OwnSession /\ [][C11_KeepsSession]_vars /\ C11_Closes

\* A request ended by an error of the provisioning client has closed its
\* session while another request, in its handler, has its own session open.
C11_Witness ==
    \E r1, r2 \in RequestIds :
        /\ requests[r1].pc = "done"
        /\ requests[r1].status \in {0, 500}
        /\ sessions[requests[r1].db] = "closed"
        /\ ~Truthy(api_key)
        /\ requests[r2].pc = "handler"
        /\ sessions[requests[r2].db] = "open"

====
